---- MODULE Spec2Model ----
(***************************************************************************)
(* Content generator bot: the per-user dialogue state machine of           *)
(* content_bot/bot_app.py over the in-memory store of content_bot/state.py.*)
(*                                                                         *)
(* Texts are sequences of one-character strings, so that strip(),          *)
(* isdigit(), int() and split() are computed character by character.       *)
(* Optional values (Python None) are sequences of length at most one:      *)
(* None is <<>>, a set value v is <<v>>.                                   *)
(*                                                                         *)
(* TeleBot runs handlers on worker threads, so a handler that calls the    *)
(* completion service is two steps: the part up to the call (..._call) and *)
(* the part after the call returned (..._return).  A handler keeps the     *)
(* UserState object it read at its start, also after a reset replaced it   *)
(* in the store.                                                           *)
(*                                                                         *)
(* Three specifications share the module.  Spec is the dialogue machine.   *)
(* ClientSpec is content_bot/gigachat.py: concurrent generate_completion   *)
(* calls over the one cached access token.  FunSpec applies the pure       *)
(* functions (parse_ideas on raw text, the expiry computation of           *)
(* _refresh_token) to inputs drawn in its initial state.  Each leaves the  *)
(* variables of the other two as they are initially.                       *)
(***************************************************************************)
EXTENDS Integers, Sequences, FiniteSets

\* ------------------------------------------------------------------ bounds
\* Largest number of elements of a JSON array the completion service returns.
MaxIdeas == 2
\* Handlers waiting on the completion service at once.
MaxInflight == 2
\* Steps the clock of the completion client advances.
MaxTicks == 3

\* ------------------------------------------------------------------ texts
None == <<>>
Some(v) == <<v>>

Digits == <<"0", "1", "2", "3", "4", "5", "6", "7", "8", "9">>
DigitSet == {Digits[i] : i \in 1..Len(Digits)}
DigitVal(c) == (CHOOSE i \in 1..Len(Digits) : Digits[i] = c) - 1
\* Decimal rendering of a small natural number (f"{i}", str(i)).
RECURSIVE Str(_)
Str(n) == IF n < Len(Digits) THEN <<Digits[n + 1]>>
          ELSE Str(n \div Len(Digits)) \o <<Digits[(n % Len(Digits)) + 1]>>

IsSpace(c) == c = " "

\* str.strip(): whitespace removed at both ends.
RECURSIVE lstrip(_)
lstrip(s) == IF s # <<>> /\ IsSpace(Head(s)) THEN lstrip(Tail(s)) ELSE s
RECURSIVE rstrip(_)
rstrip(s) == IF s # <<>> /\ IsSpace(s[Len(s)])
             THEN rstrip(SubSeq(s, 1, Len(s) - 1)) ELSE s
strip(s) == rstrip(lstrip(s))

\* str.isdigit(): non-empty and every character a digit.
isdigit(s) == s # <<>> /\ \A i \in 1..Len(s) : s[i] \in DigitSet

\* Value of a non-empty digit string.
RECURSIVE DigitsValue(_)
DigitsValue(s) == IF s = <<>> THEN 0
                  ELSE DigitsValue(SubSeq(s, 1, Len(s) - 1)) * Len(Digits)
                       + DigitVal(s[Len(s)])

\* int(s): surrounding whitespace and one sign are allowed; anything else
\* raises ValueError.
IntBody(s) == IF s # <<>> /\ Head(s) \in {"+", "-"} THEN Tail(s) ELSE s
int_ok(s) == isdigit(IntBody(strip(s)))
int_value(s) == IF strip(s) # <<>> /\ Head(strip(s)) = "-"
                THEN 0 - DigitsValue(IntBody(strip(s)))
                ELSE DigitsValue(IntBody(strip(s)))

\* data.split(":", 1)[1]: what follows the first colon.
RECURSIVE after_colon(_)
after_colon(s) == IF s = <<>> THEN <<>>
                  ELSE IF Head(s) = ":" THEN Tail(s) ELSE after_colon(Tail(s))
PickPrefix == <<"p", "i", "c", "k", ":">>
startswith_pick(s) == Len(s) >= Len(PickPrefix)
                      /\ SubSeq(s, 1, Len(PickPrefix)) = PickPrefix


\* ------------------------------------------------------------------ state.py
Users == {1}

\* UserState(): the dataclass defaults.
UserState == [step |-> "waiting_niche", niche |-> None, goal |-> None,
              content_format |-> None, ideas |-> <<>>,
              selected_index |-> None]

Steps == {"waiting_niche", "waiting_goal", "waiting_format",
          "ready_to_generate", "waiting_idea_selection", "generating_post",
          "finished"}

\* Python truthiness of an Optional[str]: None and "" are false.
Truthy(opt) == opt # None /\ opt[1] # <<>>

VARIABLES
  storage,   \* StateManager._storage: user -> None (no entry) or Some(state)
  inflight,  \* handlers waiting on generate_completion: handler -> count
  ev,        \* the event (or return of a call) handled by the last step
  out,       \* bot.send_message calls made by the last step, in order
  calls      \* generate_completion calls issued by the last step, in order

vars == <<storage, inflight, ev, out, calls>>

VARIABLES
  access_token,      \* GigaChatClient._access_token: None or Some(token)
  token_expires_at,  \* GigaChatClient._token_expires_at: None or Some(instant)
  now,               \* the clock dt.datetime.utcnow() reads
  thread,            \* thread -> where its generate_completion call stands
  cev,               \* the step of a call taken last
  whole              \* the token and the expiry stored were written by one
                     \* _refresh_token call (or are both the initial None)

client_vars == <<access_token, token_expires_at, now, thread, cev, whole>>

VARIABLES
  arg,   \* the input a pure function is applied to
  res    \* None, or Some(result) once it was applied

fun_vars == <<arg, res>>
all_vars == <<vars, client_vars, fun_vars>>

HandlerKinds == {"generate", "pick"}
\* A waiting handler holds the UserState object it looked up at its start:
\* <<kind, user, current>>, current = that object is still the one the store
\* maps the user to.  After a reset it is an orphan, reachable only from the
\* handlers that hold it; they only write to it, so its fields are not kept.
Handlers == HandlerKinds \X Users \X BOOLEAN

InflightCount(inf) ==
  LET RECURSIVE Sum(_)
      Sum(S) == IF S = {} THEN 0
                ELSE LET h == CHOOSE x \in S : TRUE
                     IN inf[h] + Sum(S \ {h})
  IN Sum(Handlers)

\* StateManager.get: the store after the lookup (an entry is created on the
\* first lookup).
get(u) == IF storage[u] = None THEN [storage EXCEPT ![u] = Some(UserState)]
          ELSE storage

\* Mutant: reset keeps an existing entry.
reset_keeps(u) == get(u)
\* StateManager.reset: a new object replaces the entry.
reset(u) == [storage EXCEPT ![u] = Some(UserState)]
\* The waiting handlers after reset(u): those of u now hold an orphan.
orphaned(inf, u) ==
  [h \in Handlers |->
     IF h[2] # u THEN inf[h]
     ELSE IF h[3] THEN 0
     ELSE inf[h] + inf[<<h[1], h[2], TRUE>>]]

\* The state a lookup for u yields now.
Cur(u) == get(u)[u][1]

\* ------------------------------------------------------------------ messages
NoKeyboard == [kind |-> "none", count |-> 0]
Msg(text) == [text |-> text, body |-> <<>>, keyboard |-> NoKeyboard]
\* _build_number_keyboard(count, "pick"): buttons pick:1 .. pick:count.
_build_number_keyboard(count) == [kind |-> "pick", count |-> count]
_build_restart_keyboard == [kind |-> "restart", count |-> 2]

\* An event: for a return of generate_completion, current tells whether the
\* handler's UserState is still the stored one, and ideas is what parse_ideas
\* made of the response.
Event(kind, user, data, is_command, status) ==
  [kind |-> kind, user |-> user, data |-> data, is_command |-> is_command,
   status |-> status, current |-> TRUE, ideas |-> <<>>]

TypeOK ==
  /\ inflight \in [Handlers -> 0..MaxInflight]
  /\ \A u \in Users : Len(storage[u]) <= 1 /\ Cur(u).step \in Steps

\* ------------------------------------------------------------------ parsing.py
\* A decoded response of the completion service: the JSON value json.loads
\* yields, or type "invalid" when neither the text nor its bracketed part
\* decodes.  An element is an object with optional title and description
\* (None: key absent or null) or a value of another type.
JObject(title, description) ==
  [type |-> "object", title |-> title, description |-> description]
JScalar == [type |-> "string", title |-> None, description |-> None]
JArray(items) == [type |-> "array", items |-> items]
JDict == [type |-> "object", items |-> <<>>]
JInvalid == [type |-> "invalid", items |-> <<>>]

Idea(title, description) == [title |-> title, description |-> description]

\* Mutant: only the title of an element is required.
RECURSIVE FirstBad_title_only(_, _)
FirstBad_title_only(items, i) ==
  IF i > Len(items) THEN 0
  ELSE IF items[i].type # "object" \/ ~Truthy(items[i].title) THEN i
  ELSE FirstBad_title_only(items, i + 1)
\* First 1-based position of an element parse_ideas rejects, 0 if none.
RECURSIVE FirstBad(_, _)
FirstBad(items, i) ==
  IF i > Len(items) THEN 0
  ELSE IF \/ items[i].type # "object"
          \/ ~Truthy(items[i].title)
          \/ ~Truthy(items[i].description)
       THEN i
       ELSE FirstBad(items, i + 1)

\* parse_ideas: [ok, ideas, error]; error names the IdeaParsingError raised.
parse_ideas(payload) ==
  IF payload.type = "invalid"
    THEN [ok |-> FALSE, ideas |-> <<>>, error |-> "not_json"]
  ELSE IF payload.type # "array"
    THEN [ok |-> FALSE, ideas |-> <<>>, error |-> "not_array"]
  ELSE IF FirstBad(payload.items, 1) # 0
    THEN [ok |-> FALSE, ideas |-> <<>>, error |-> "bad_item"]
  ELSE IF Len(payload.items) < 1
    THEN [ok |-> FALSE, ideas |-> <<>>, error |-> "no_ideas"]
  ELSE [ok |-> TRUE,
        ideas |-> [i \in 1..Len(payload.items) |->
                     Idea(strip(payload.items[i].title[1]),
                          strip(payload.items[i].description[1]))],
        error |-> "none"]

\* ------------------------------------------------------------------ prompts.py
build_idea_prompt(niche, goal, content_format) ==
  <<niche, goal, content_format>>
build_post_prompt(niche, goal, content_format, title, description) ==
  <<niche, goal, content_format, Some(title), Some(description)>>

Call(system_prompt, user_prompt, temperature) ==
  [system_prompt |-> system_prompt, user_prompt |-> user_prompt,
   temperature |-> temperature]

\* ------------------------------------------------------------------ inputs
\* Free text a user types (message.text), not flagged as a command.
TextInputs == { <<" ", "a">>, <<" ">>, Str(MaxIdeas) }
\* Text whose entities hold a bot_command.
CommandTexts == { <<"/", "a">> }
\* What follows "pick:" in callback data.
PickArgs == {Str(n) : n \in 0..(MaxIdeas + 1)}
              \cup { <<"-", "1">>, <<"x">> }
PickData == {PickPrefix \o a : a \in PickArgs}

ItemA == JObject(Some(<<"A">>), Some(<<"x">>))
ItemB == JObject(Some(<<" ", "B">>), Some(<<"y", " ">>))
ItemNoTitle == JObject(None, Some(<<"z">>))
\* Arrays of k ideas, alternating between the two items.
Alternating(first, second, k) ==
  [i \in 1..k |-> IF i % 2 = 1 THEN first ELSE second]
GoodArrays == {Alternating(ItemA, ItemB, k) : k \in 1..MaxIdeas}
                \cup {Alternating(ItemB, ItemA, MaxIdeas)}
\* The empty array, and arrays whose last element has no title.
BadArrays == {Append(Alternating(ItemA, ItemB, k), ItemNoTitle) :
                k \in 0..(MaxIdeas - 1)} \cup {<<>>}
\* Decoded values the completion service may answer an idea request with.
IdeaPayloads == {JArray(items) : items \in GoodArrays \cup BadArrays}
                  \cup {JDict, JInvalid}
\* Text the completion service may answer a post request with.
PostContents == { <<" ", "p", " ">> }


\* ------------------------------------------------------------------ gigachat.py
\* A UTC instant (dt.datetime): whole seconds since the epoch and the
\* milliseconds within the second.
Instant(s, ms) == [s |-> s, ms |-> ms]
\* a < b on instants.
Earlier(a, b) == a.s < b.s \/ (a.s = b.s /\ a.ms < b.ms)
\* instant + dt.timedelta(seconds=d), d a duration of the same shape.
Plus(a, d) == Instant(a.s + d.s + ((a.ms + d.ms) \div 1000),
                      (a.ms + d.ms) % 1000)
\* instant - dt.timedelta(seconds=k), k whole seconds.
MinusSeconds(a, k) == Instant(a.s - k, a.ms)

\* A JSON number hi * 10^6 + lo (0 <= lo < 10^6), an integer of up to 13
\* digits kept in two words.
Number(hi, lo) == [type |-> "number", hi |-> hi, lo |-> lo, parsed |-> None]
\* A JSON string, by what the parser the code applies to it yields
\* (fromisoformat for expires_at, float for expires_in): None when it raises
\* ValueError.
String(parsed) == [type |-> "string", hi |-> 0, lo |-> 0, parsed |-> parsed]

\* The safety margin of _token_is_valid, in seconds.
Margin == 30
\* The lifetime taken when the response tells none, in seconds.
DefaultLifetime == 55 * 60

\* Mutant: the token is used up to its expiry.
_token_is_valid_no_margin(token, expires_at, clock) ==
  IF ~Truthy(token) \/ expires_at = None THEN FALSE
  ELSE Earlier(clock, expires_at[1])
\* _token_is_valid, of the cached token and expiry at the clock's time.
_token_is_valid(token, expires_at, clock) ==
  IF ~Truthy(token) \/ expires_at = None THEN FALSE
  ELSE Earlier(clock, MinusSeconds(expires_at[1], Margin))

\* value > 1e11 (line 98).
looks_like_milliseconds(v) == v.hi > 100000 \/ (v.hi = 100000 /\ v.lo > 0)
\* float(expires_at), divided by 1000.0 when it looks like milliseconds
\* (lines 96-99): seconds and milliseconds.
scaled(v) ==
  IF looks_like_milliseconds(v)
  THEN Instant(v.hi * 1000 + (v.lo \div 1000), v.lo % 1000)
  ELSE Instant(v.hi * 1000000 + v.lo, 0)
\* value > 1e9 (line 100).
looks_like_epoch(value) ==
  value.s > 1000000000 \/ (value.s = 1000000000 /\ value.ms > 0)

\* Mutant: a number is always taken as seconds since the epoch.
numeric_expiry_absolute(v, clock) == scaled(v)
\* Lines 95-104: the expiry a numeric expires_at gives at the clock's time.
numeric_expiry(v, clock) ==
  IF looks_like_epoch(scaled(v)) THEN scaled(v) ELSE Plus(clock, scaled(v))

\* Lines 106-111: float(expires_in), or 55 minutes when it raises.
lifetime(expires_in) ==
  IF expires_in.type = "number"
  THEN Instant(expires_in.hi * 1000000 + expires_in.lo, 0)
  ELSE IF expires_in.parsed # None THEN expires_in.parsed[1]
  ELSE Instant(DefaultLifetime, 0)

\* Lines 82-114: the expiry _refresh_token stores for a token response whose
\* fields expires_at and expires_in are None (absent or null), a Number or a
\* String, read at the clock's time.
expiry_of(expires_at, expires_in, clock) ==
  IF expires_at # None /\ expires_at[1].type = "string"
       /\ expires_at[1].parsed # None
    THEN expires_at[1].parsed[1]
  ELSE IF expires_at # None /\ expires_at[1].type = "number"
    THEN numeric_expiry(expires_at[1], clock)
  ELSE IF expires_in # None
    THEN Plus(clock, lifetime(expires_in[1]))
  ELSE Plus(clock, Instant(DefaultLifetime, 0))

\* The two requests of a call, by what the session.post of it ends with:
\* "timeout" (requests raises), "http_error" (a status other than 200),
\* "not_json" (response.json() raises), or a decoded body.
TokenResponse(kind, token, expires_at, expires_in) ==
  [kind |-> kind, token |-> token, expires_at |-> expires_at,
   expires_in |-> expires_in]
ChatResponse(kind, content) == [kind |-> kind, content |-> content]

\* What _refresh_token raises for a token response (lines 65-80).
refresh_raised(r) ==
  IF r.kind \in {"timeout", "not_json"} THEN "exception"
  ELSE IF r.kind = "http_error" THEN "GigaChatError"
  ELSE IF ~Truthy(r.token) THEN "GigaChatError"
  ELSE "none"
\* What generate_completion raises for a chat response (lines 137-155);
\* "no_content" is a body without choices[0].message.content.
completion_raised(r) ==
  IF r.kind \in {"timeout", "not_json"} THEN "exception"
  ELSE IF r.kind \in {"http_error", "no_content"} THEN "GigaChatError"
  ELSE "none"

Threads == {1, 2}
\* The clock at the start, 2023-11-14T22:13:20Z.
T0 == Instant(1700000000, 0)
\* The clock advances in steps of the margin.
Times == {Instant(T0.s + k * Margin, 0) : k \in 0..MaxTicks}

Token1 == <<"t", "1">>
Token2 == <<"t", "2">>
TokenResponses ==
  { TokenResponse("timeout", None, None, None),
    TokenResponse("http_error", None, None, None),
    TokenResponse("not_json", None, None, None),
    TokenResponse("ok", None, None, Some(Number(0, 2 * Margin))),
    TokenResponse("ok", Some(Token1), None, Some(Number(0, 2 * Margin))),
    TokenResponse("ok", Some(Token2),
                  Some(Number(1700000, 3 * Margin * 1000)), None) }
ChatResponses ==
  { ChatResponse("timeout", <<>>), ChatResponse("http_error", <<>>),
    ChatResponse("not_json", <<>>), ChatResponse("no_content", <<>>),
    ChatResponse("ok", <<" ", "p", " ">>) }

\* A thread outside generate_completion.
Idle == [at |-> "idle", held |-> None, acquired |-> FALSE]
\* A step of a call: the thread, the step, the response that ended a request
\* ("none" otherwise), what the call raised ("ok" when it returned, "none"
\* while it runs), whether the call has sent a token request, the token of
\* the Authorization header, and the text returned.
ClientEvent(t, kind, response, result, acquired, bearer) ==
  [thread |-> t, kind |-> kind, response |-> response, result |-> result,
   acquired |-> acquired, bearer |-> bearer, text |-> <<>>]

\* GigaChatClient.__init__: no token, no expiry; no call running.
NoClientCall ==
  /\ access_token = None
  /\ token_expires_at = None
  /\ now = T0
  /\ thread = [t \in Threads |-> Idle]
  /\ cev = ClientEvent(0, "init", "none", "none", FALSE, None)
  /\ whole = TRUE

\* generate_completion up to its first request: _ensure_token either finds
\* the token valid, or _refresh_token sends the token request (line 65).
generate_completion(t) ==
  /\ thread[t].at = "idle"
  /\ LET valid == _token_is_valid(access_token, token_expires_at, now)
     IN /\ thread' = [thread EXCEPT ![t] =
                        [at |-> IF valid THEN "ready" ELSE "token_wait",
                         held |-> None, acquired |-> ~valid]]
        /\ cev' = ClientEvent(t, "call", "none", "none", ~valid, None)
  /\ UNCHANGED <<access_token, token_expires_at, now, whole>>
  /\ UNCHANGED <<vars, fun_vars>>

\* _refresh_token from the response of the token request to line 80: the
\* token of the body replaces the stored one, then a falsy token raises.
_refresh_token(t, r) ==
  /\ thread[t].at = "token_wait"
  /\ cev' = ClientEvent(t, "token", r.kind, refresh_raised(r), TRUE, None)
  /\ IF r.kind # "ok"
     THEN /\ thread' = [thread EXCEPT ![t] = Idle]
          /\ UNCHANGED <<access_token, whole>>
     ELSE /\ access_token' = r.token
          /\ whole' = (whole /\ r.token = access_token)
          /\ thread' = [thread EXCEPT ![t] =
                          IF Truthy(r.token)
                          THEN [at |-> "expiry", held |-> Some(r),
                                acquired |-> TRUE]
                          ELSE Idle]
  /\ UNCHANGED <<token_expires_at, now>>
  /\ UNCHANGED <<vars, fun_vars>>

\* _refresh_token from line 82 to its return: the expiry is stored.
store_expiry(t) ==
  /\ thread[t].at = "expiry"
  /\ token_expires_at' = Some(expiry_of(thread[t].held[1].expires_at,
                                        thread[t].held[1].expires_in, now))
  /\ whole' = (access_token = thread[t].held[1].token)
  /\ thread' = [thread EXCEPT ![t] =
                  [at |-> "ready", held |-> None, acquired |-> TRUE]]
  /\ cev' = ClientEvent(t, "expiry", "none", "none", TRUE, None)
  /\ UNCHANGED <<access_token, now>>
  /\ UNCHANGED <<vars, fun_vars>>

\* generate_completion lines 123-143: the header takes the stored token and
\* the completion request is sent.
send_completion(t) ==
  /\ thread[t].at = "ready"
  /\ thread' = [thread EXCEPT ![t] =
                  [at |-> "chat_wait", held |-> None,
                   acquired |-> thread[t].acquired]]
  /\ cev' = ClientEvent(t, "send", "none", "none", thread[t].acquired,
                        access_token)
  /\ UNCHANGED <<access_token, token_expires_at, now, whole>>
  /\ UNCHANGED <<vars, fun_vars>>

\* generate_completion from the response of the completion request to its
\* return (lines 145-155).
receive_completion(t, r) ==
  /\ thread[t].at = "chat_wait"
  /\ thread' = [thread EXCEPT ![t] = Idle]
  /\ cev' = [ClientEvent(t, "return", r.kind,
                         IF completion_raised(r) = "none"
                         THEN "ok" ELSE completion_raised(r),
                         thread[t].acquired, None)
               EXCEPT !.text = strip(r.content)]
  /\ UNCHANGED <<access_token, token_expires_at, now, whole>>
  /\ UNCHANGED <<vars, fun_vars>>

\* Time passes.
Tick ==
  /\ Earlier(now, Instant(T0.s + MaxTicks * Margin, 0))
  /\ now' = Instant(now.s + Margin, now.ms)
  /\ cev' = ClientEvent(0, "tick", "none", "none", FALSE, None)
  /\ UNCHANGED <<access_token, token_expires_at, thread, whole>>
  /\ UNCHANGED <<vars, fun_vars>>

ClientNext ==
  \/ \E t \in Threads : generate_completion(t)
  \/ \E t \in Threads, r \in TokenResponses : _refresh_token(t, r)
  \/ \E t \in Threads : store_expiry(t)
  \/ \E t \in Threads : send_completion(t)
  \/ \E t \in Threads, r \in ChatResponses : receive_completion(t, r)
  \/ Tick


\* ------------------------------------------------------------------ raw text
\* A response text is a sequence of symbols: the brackets and the comma of
\* JSON, a blank, "x" for a character of prose, and one symbol for each JSON
\* literal that has no bracket in it: an object ("A", "B", "N", "E", "W") or
\* a scalar ("1").
ItemEmptyDescription == JObject(Some(<<"A">>), Some(<<>>))
ItemBlankTitle == JObject(Some(<<" ">>), Some(<<"x">>))
Literals == {"A", "B", "N", "E", "W", "1"}
LiteralValue(c) ==
  IF c = "A" THEN ItemA
  ELSE IF c = "B" THEN ItemB
  ELSE IF c = "N" THEN ItemNoTitle
  ELSE IF c = "E" THEN ItemEmptyDescription
  ELSE IF c = "W" THEN ItemBlankTitle
  ELSE JScalar

\* json.loads skips whitespace around every token.
RECURSIVE skip_whitespace(_, _)
skip_whitespace(s, i) ==
  IF i <= Len(s) /\ IsSpace(s[i]) THEN skip_whitespace(s, i + 1) ELSE i

NoValue == [ok |-> FALSE, value |-> JInvalid, next |-> 0]
\* The JSON value that starts at position i, and the position after it.
RECURSIVE parse_value(_, _)
RECURSIVE parse_elements(_, _, _)
parse_value(s, i) ==
  LET j == skip_whitespace(s, i)
  IN IF j > Len(s) THEN NoValue
     ELSE IF s[j] \in Literals
       THEN [ok |-> TRUE, value |-> LiteralValue(s[j]), next |-> j + 1]
     ELSE IF s[j] = "["
       THEN LET k == skip_whitespace(s, j + 1)
            IN IF k <= Len(s) /\ s[k] = "]"
               THEN [ok |-> TRUE, value |-> JArray(<<>>), next |-> k + 1]
               ELSE parse_elements(s, j + 1, <<>>)
     ELSE NoValue
\* The elements of an array from position i on, after the elements acc.
parse_elements(s, i, acc) ==
  LET v == parse_value(s, i)
      k == skip_whitespace(s, v.next)
  IN IF ~v.ok \/ k > Len(s) THEN NoValue
     ELSE IF s[k] = ","
       THEN parse_elements(s, k + 1, Append(acc, v.value))
     ELSE IF s[k] = "]"
       THEN [ok |-> TRUE, value |-> JArray(Append(acc, v.value)),
             next |-> k + 1]
     ELSE NoValue

\* json.loads(s): the decoded value, ok = FALSE for JSONDecodeError.
json_loads(s) ==
  LET v == parse_value(s, 1)
  IN IF v.ok /\ skip_whitespace(s, v.next) > Len(s)
     THEN [ok |-> TRUE, value |-> v.value]
     ELSE [ok |-> FALSE, value |-> JInvalid]

Positions(s, c) == {i \in 1..Len(s) : s[i] = c}
Min(S) == CHOOSE i \in S : \A j \in S : i <= j
Max(S) == CHOOSE i \in S : \A j \in S : j <= i

\* Mutant: the regular expression is not greedy.
_extract_json_array_lazy(s) ==
  IF Positions(s, "[") = {}
       \/ {i \in Positions(s, "]") : i > Min(Positions(s, "["))} = {}
  THEN None
  ELSE Some(SubSeq(s, Min(Positions(s, "[")),
                   Min({i \in Positions(s, "]") :
                          i > Min(Positions(s, "["))})))
\* _extract_json_array: re.search(r"\[.*\]", raw, flags=re.DOTALL), the text
\* from the first "[" to the last "]" after it; None without a match.
_extract_json_array(s) ==
  IF Positions(s, "[") = {}
       \/ {i \in Positions(s, "]") : i > Min(Positions(s, "["))} = {}
  THEN None
  ELSE Some(SubSeq(s, Min(Positions(s, "[")), Max(Positions(s, "]"))))

\* parse_ideas lines 24-33: the decoded value of the raw text, JInvalid when
\* IdeaParsingError is raised for text that is not JSON.
decode(s) ==
  IF json_loads(s).ok THEN json_loads(s).value
  ELSE IF _extract_json_array(s) = None THEN JInvalid
  ELSE json_loads(_extract_json_array(s)[1]).value

\* ------------------------------------------------------------------ functions
\* The pure functions applied to an input: parse_ideas to a raw text, the
\* expiry computation of _refresh_token to the fields of a token response
\* and the clock.
Argument(fn, s, expires_at, expires_in, clock) ==
  [fn |-> fn, raw |-> s, expires_at |-> expires_at,
   expires_in |-> expires_in, clock |-> clock]

\* "[" e1 "," e2 ... "]"
RECURSIVE Joined(_)
Joined(items) ==
  IF items = <<>> THEN <<>>
  ELSE IF Len(items) = 1 THEN items
  ELSE <<Head(items), ",">> \o Joined(Tail(items))
ArrayText(items) == <<"[">> \o Joined(items) \o <<"]">>
LiteralLists == UNION {[1..n -> Literals] : n \in 0..MaxIdeas}
\* Arrays of literals, an array in an array, a lone object, and texts that
\* are not JSON.
Cores ==
  {ArrayText(items) : items \in LiteralLists}
    \cup { <<"[", "[", "A", "]", "]">>, <<"A">>, <<>>,
           <<"[", "A", ",", "]">>, <<"[", "A">>, <<"A", "]">>,
           <<"[", "A", " ", "B", "]">>, <<"[", " ", "B", " ", "]">> }
Prefixes == { <<>>, <<"x">>, <<" ">>, <<"[">>, <<"x", "]">> }
Suffixes == { <<>>, <<"x">>, <<" ">>, <<"]">>, <<"[", "x">> }
RawTexts == {p \o c \o q : p \in Prefixes, c \in Cores, q \in Suffixes}

ExpiresAtValues ==
  { None,
    Some(Number(1700, 0)), Some(Number(1700000, 0)),
    Some(Number(1700000, 60500)), Some(Number(1000, 1)),
    Some(Number(100001, 0)), Some(Number(0, 120)),
    Some(String(None)), Some(String(Some(Instant(1700000090, 0)))) }
ExpiresInValues ==
  { None, Some(Number(0, 120)), Some(String(None)),
    Some(String(Some(Instant(120, 0)))) }

Arguments ==
  {Argument("parse_ideas", s, None, None, T0) : s \in RawTexts}
    \cup {Argument("expiry", <<>>, a, i, c) :
            a \in ExpiresAtValues, i \in ExpiresInValues, c \in Times}

NoArgument == arg = None /\ res = None

apply_parse_ideas ==
  /\ arg.fn = "parse_ideas"
  /\ res = None
  /\ res' = Some(parse_ideas(decode(arg.raw)))
  /\ UNCHANGED <<arg, vars, client_vars>>

apply_expiry ==
  /\ arg.fn = "expiry"
  /\ res = None
  /\ res' = Some(expiry_of(arg.expires_at, arg.expires_in, arg.clock))
  /\ UNCHANGED <<arg, vars, client_vars>>


\* ------------------------------------------------------------------ bot_app.py
\* create_bot: an empty StateManager, no handler running.
NoDialogue ==
  /\ storage = [u \in Users |-> None]
  /\ inflight = [h \in Handlers |-> 0]
  /\ ev = Event("init", 0, <<>>, FALSE, "none")
  /\ out = <<>>
  /\ calls = <<>>

Init == NoDialogue /\ NoClientCall /\ NoArgument

\* A step that sends msgs, calls nothing and writes no UserState field.
Reply(st, msgs) ==
  /\ storage' = st
  /\ inflight' = inflight
  /\ out' = msgs
  /\ calls' = <<>>

\* /start
handle_start(u) ==
  /\ ev' = Event("start", u, <<>>, FALSE, "none")
  /\ storage' = reset(u)
  /\ inflight' = orphaned(inflight, u)
  /\ out' = <<Msg("greeting"), Msg("ask_niche")>>
  /\ calls' = <<>>
  /\ UNCHANGED <<client_vars, fun_vars>>

\* /help
handle_help(u) ==
  /\ ev' = Event("help", u, <<>>, FALSE, "none")
  /\ Reply(storage, <<Msg("help")>>)
  /\ UNCHANGED <<client_vars, fun_vars>>

\* callback action:new
handle_new(u) ==
  /\ ev' = Event("new", u, <<>>, FALSE, "none")
  /\ storage' = reset(u)
  /\ inflight' = orphaned(inflight, u)
  /\ out' = <<Msg("restart"), Msg("ask_niche")>>
  /\ calls' = <<>>
  /\ UNCHANGED <<client_vars, fun_vars>>

\* callback action:about
handle_about(u) ==
  /\ ev' = Event("about", u, <<>>, FALSE, "none")
  /\ Reply(storage, <<Msg("help")>>)
  /\ UNCHANGED <<client_vars, fun_vars>>

\* Mutant: any() for all().
any_parameter(state) ==
  Truthy(state.niche) \/ Truthy(state.goal) \/ Truthy(state.content_format)
\* handle_generate's guard: all([state.niche, state.goal, state.content_format]).
all_parameters(state) ==
  Truthy(state.niche) /\ Truthy(state.goal) /\ Truthy(state.content_format)

\* callback action:generate, up to the generate_completion call.
handle_generate(u) ==
  /\ ev' = Event("generate", u, <<>>, FALSE, "none")
  /\ UNCHANGED <<client_vars, fun_vars>>
  /\ LET st == get(u)
         state == st[u][1]
         h == <<"generate", u, TRUE>>
     IN IF ~all_parameters(state)
        THEN Reply(st, <<Msg("parameters_missing")>>)
        ELSE /\ InflightCount(inflight) < MaxInflight
             /\ storage' = st
             /\ inflight' = [inflight EXCEPT ![h] = @ + 1]
             /\ out' = <<Msg("generating")>>
             /\ calls' = <<Call("IDEA_SYSTEM_PROMPT",
                                build_idea_prompt(state.niche, state.goal,
                                                  state.content_format), 9)>>

\* Mutant: ideas already stored are kept.
store_ideas_once(state, ideas) ==
  IF state.ideas # <<>> THEN state
  ELSE [state EXCEPT !.ideas = ideas, !.step = "waiting_idea_selection"]
\* Mutant: the ideas are stored and the step is left as it was.
store_ideas_keeps_step(state, ideas) == [state EXCEPT !.ideas = ideas]
\* The UserState after handle_generate stored the parsed ideas.
store_ideas(state, ideas) ==
  [state EXCEPT !.ideas = ideas, !.step = "waiting_idea_selection"]

\* Mutant: the handler writes to the object the store maps the user to now.
write_current(h, new_state) == [storage EXCEPT ![h[2]] = Some(new_state)]
\* The store after a handler of user u wrote new_state to the object it
\* holds: the stored state when that object is still the stored one.
write(h, new_state) ==
  IF h[3] THEN [storage EXCEPT ![h[2]] = Some(new_state)] ELSE storage

\* Mutant: the except clause catches GigaChatError only.
generate_catches_completion_only(error) == error = "GigaChatError"
\* The except clause of handle_generate (line 196).
generate_catches(error) == error \in {"GigaChatError", "IdeaParsingError"}

\* What lines 190-195 raise: the exception of generate_completion, else the
\* IdeaParsingError of parse_ideas, else nothing.
generate_raised(status, payload) ==
  IF status # "ok" THEN status
  ELSE IF ~parse_ideas(payload).ok THEN "IdeaParsingError"
  ELSE "none"

\* handle_generate after generate_completion returned (status "ok" with the
\* decoded response), raised GigaChatError, or raised another exception.
generate_return(h, status, payload) ==
  /\ h[1] = "generate"
  /\ inflight[h] > 0
  /\ status = "ok" \/ payload = JInvalid
  /\ UNCHANGED <<client_vars, fun_vars>>
  /\ ev' = [Event("generate_return", h[2], <<>>, FALSE,
                  generate_raised(status, payload))
              EXCEPT !.current = h[3],
                     !.ideas = IF status = "ok"
                               THEN parse_ideas(payload).ideas ELSE <<>>]
  /\ inflight' = [inflight EXCEPT ![h] = @ - 1]
  /\ calls' = <<>>
  /\ IF generate_raised(status, payload) = "none"
     THEN /\ storage' = write(h, store_ideas(Cur(h[2]),
                                             parse_ideas(payload).ideas))
          /\ out' = <<[text |-> "ideas", body |-> <<>>,
                       keyboard |-> _build_number_keyboard(
                                      Len(parse_ideas(payload).ideas))]>>
     ELSE IF generate_catches(generate_raised(status, payload))
     THEN storage' = storage /\ out' = <<Msg("ideas_failed")>>
     ELSE storage' = storage /\ out' = <<>>

\* Mutant: the 1-based number taken as the index.
selected_index_one_based(data) == int_value(after_colon(data))
\* handle_pick line 224: int(call.data.split(":", 1)[1]) - 1.
selected_index_of(data) == int_value(after_colon(data)) - 1
\* handle_pick line 229.
out_of_range(selected_index, ideas) ==
  selected_index < 0 \/ selected_index >= Len(ideas)
\* Mutant: "and" for "or" in the guard of line 219.
not_selecting_and(state) ==
  state.step # "waiting_idea_selection" /\ state.ideas = <<>>
\* handle_pick line 219.
not_selecting(state) ==
  state.step # "waiting_idea_selection" \/ state.ideas = <<>>
\* The UserState after handle_pick accepted the selection (lines 233-235).
record_selection(state, selected_index) ==
  [state EXCEPT !.selected_index = Some(selected_index),
                !.step = "generating_post"]
\* The post request handle_pick issues (lines 241-251).
post_call(state, idea) ==
  Call("POST_SYSTEM_PROMPT",
       build_post_prompt(state.niche, state.goal, state.content_format,
                         idea.title, idea.description), 8)

\* handle_pick(call), up to the generate_completion call.
handle_pick(u, data) ==
  LET st == get(u)
      state == st[u][1]
      h == <<"pick", u, TRUE>>
  IN IF not_selecting(state)
     THEN Reply(st, <<Msg("ideas_not_ready")>>)
     ELSE IF ~int_ok(after_colon(data))
     THEN Reply(st, <<Msg("bad_number")>>)
     ELSE IF out_of_range(selected_index_of(data), state.ideas)
     THEN Reply(st, <<Msg("no_such_idea")>>)
     ELSE /\ InflightCount(inflight) < MaxInflight
          /\ storage' = [st EXCEPT
                           ![u] = Some(record_selection(
                                         state, selected_index_of(data)))]
          /\ inflight' = [inflight EXCEPT ![h] = @ + 1]
          /\ out' = <<Msg("good_choice")>>
          /\ calls' = <<post_call(state,
                                  state.ideas[selected_index_of(data) + 1])>>

\* callback pick:<x>
pick_callback(u, data) ==
  /\ startswith_pick(data)
  /\ ev' = Event("pick", u, data, FALSE, "none")
  /\ UNCHANGED <<client_vars, fun_vars>>
  /\ handle_pick(u, data)

\* The UserState after handle_pick received the post (line 260).
finish(state) == [state EXCEPT !.step = "finished"]

\* The except clause of handle_pick (line 252).
pick_catches(error) == error = "GigaChatError"

\* Mutant: a failed post request rolls the step back.
post_failed_rollback(state) ==
  [state EXCEPT !.step = "waiting_idea_selection"]
\* The UserState after the except clause of handle_pick (lines 252-258): it
\* writes no field.
post_failed(state) == state

\* handle_pick after generate_completion returned.
pick_return(h, status, content) ==
  /\ h[1] = "pick"
  /\ inflight[h] > 0
  /\ (status = "ok") <=> (content \in PostContents)
  /\ UNCHANGED <<client_vars, fun_vars>>
  /\ ev' = [Event("pick_return", h[2], <<>>, FALSE,
                  IF status = "ok" THEN "none" ELSE status)
              EXCEPT !.current = h[3]]
  /\ inflight' = [inflight EXCEPT ![h] = @ - 1]
  /\ calls' = <<>>
  /\ IF status = "ok"
     THEN /\ storage' = write(h, finish(Cur(h[2])))
          /\ out' = <<[text |-> "post", body |-> <<Some(strip(content))>>,
                       keyboard |-> _build_restart_keyboard]>>
     ELSE IF pick_catches(status)
     THEN /\ storage' = write(h, post_failed(Cur(h[2])))
          /\ out' = <<Msg("post_failed")>>
     ELSE storage' = storage /\ out' = <<>>

\* The UserState after handle_text stored a collected parameter.
store_niche(state, user_input) ==
  [state EXCEPT !.niche = Some(user_input), !.step = "waiting_goal"]
\* Mutant: the goal overwrites the niche.
store_goal_as_niche(state, user_input) ==
  [state EXCEPT !.niche = Some(user_input), !.step = "waiting_format"]
store_goal(state, user_input) ==
  [state EXCEPT !.goal = Some(user_input), !.step = "waiting_format"]
store_format(state, user_input) ==
  [state EXCEPT !.content_format = Some(user_input),
                !.step = "ready_to_generate"]

\* show_parameters.
show_parameters(state) ==
  [text |-> "parameters",
   body |-> <<state.niche, state.goal, state.content_format>>,
   keyboard |-> [kind |-> "generate", count |-> 1]]

\* A step of handle_text that stores new_state and sends msgs.
Store(st, u, new_state, msgs) ==
  /\ storage' = [st EXCEPT ![u] = Some(new_state)]
  /\ inflight' = inflight
  /\ out' = msgs
  /\ calls' = <<>>

\* Mutant: the typed number is taken as an index that starts at 0.
fake_call_data_from_zero(user_input) ==
  PickPrefix \o Str(int_value(user_input) + 1)
\* handle_text line 294: data=f"pick:{user_input}" of the call handed to
\* handle_pick.
fake_call_data(user_input) == PickPrefix \o user_input

\* Mutant: the entities of a message are not looked at.
ignores_entities(is_command) == FALSE
\* handle_text line 273: the message has an entity of type bot_command.
has_bot_command(is_command) == is_command

\* A text message (with_state looks the state up before the handler runs).
handle_text(u, text, is_command) ==
  /\ ev' = Event("text", u, text, is_command, "none")
  /\ UNCHANGED <<client_vars, fun_vars>>
  /\ LET st == get(u)
         state == st[u][1]
         user_input == strip(text)
     IN IF has_bot_command(is_command)
        THEN Reply(st, <<>>)
        ELSE IF state.step = "waiting_niche"
        THEN Store(st, u, store_niche(state, user_input), <<Msg("ask_goal")>>)
        ELSE IF state.step = "waiting_goal"
        THEN Store(st, u, store_goal(state, user_input), <<Msg("ask_format")>>)
        ELSE IF state.step = "waiting_format"
        THEN Store(st, u, store_format(state, user_input),
                   <<show_parameters(store_format(state, user_input))>>)
        ELSE IF state.step = "waiting_idea_selection" /\ isdigit(user_input)
        THEN handle_pick(u, fake_call_data(user_input))
        ELSE Reply(st, <<Msg("not_understood")>>)

\* How a generate_completion call ends for its caller: "ok" with a text, or
\* with what _refresh_token or generate_completion raised.
CompletionStatus ==
  ({"ok"} \cup {refresh_raised(r) : r \in TokenResponses}
          \cup {completion_raised(r) : r \in ChatResponses}) \ {"none"}

Next ==
  \/ \E u \in Users : handle_start(u)
  \/ \E u \in Users : handle_help(u)
  \/ \E u \in Users : handle_new(u)
  \/ \E u \in Users : handle_about(u)
  \/ \E u \in Users : handle_generate(u)
  \/ \E h \in Handlers, status \in CompletionStatus, payload \in IdeaPayloads :
       generate_return(h, status, payload)
  \/ \E u \in Users, data \in PickData : pick_callback(u, data)
  \/ \E h \in Handlers, status \in CompletionStatus,
        content \in PostContents \cup {<<>>} :
       pick_return(h, status, content)
  \/ \E u \in Users, text \in TextInputs : handle_text(u, text, FALSE)
  \/ \E u \in Users, text \in CommandTexts : handle_text(u, text, TRUE)

Spec == Init /\ [][Next]_vars

\* The completion client alone.
ClientSpec == Init /\ [][ClientNext]_all_vars

\* The pure functions alone: one input, drawn at the start.
FunInit ==
  /\ NoDialogue
  /\ NoClientCall
  /\ arg \in Arguments
  /\ res = None

FunNext == apply_parse_ideas \/ apply_expiry

FunSpec == FunInit /\ [][FunNext]_all_vars


\* ================================================================== claims
\* The state of the user of the last event before and after the step.
StateIn(st, u) == IF st[u] = None THEN UserState ELSE st[u][1]
Before == StateIn(storage, ev'.user)
After == StateIn(storage', ev'.user)

\* The last step handled a callback pick:<x>.
IsPick(e) == e.kind = "pick"
\* The last step handled a text message not flagged as a command.
IsFreeText(e) == e.kind = "text" /\ ~e.is_command

\* The four acceptance conditions of a selection x in a state.
ParsesAsInteger(x) ==
  LET t == strip(x)
      d == IF t # <<>> /\ Head(t) \in {"+", "-"} THEN Tail(t) ELSE t
  IN d # <<>> /\ \A i \in 1..Len(d) : d[i] \in DigitSet
Accepted(state, x) ==
  /\ state.step = "waiting_idea_selection"
  /\ state.ideas # <<>>
  /\ ParsesAsInteger(x)
  /\ 1 <= int_value(x) /\ int_value(x) <= Len(state.ideas)

CorrectiveTexts == {"ideas_not_ready", "bad_number", "no_such_idea",
                    "not_understood"}
\* The step changed no field, issued no call and sent one corrective message.
RejectedStep ==
  /\ After = Before
  /\ calls' = <<>>
  /\ inflight' = inflight
  /\ Len(out') = 1
  /\ out'[1].text \in CorrectiveTexts

\* C1 (as stated): every selection event -- a callback pick:<x> in any step,
\* or any text typed while step is waiting_idea_selection -- that violates an
\* acceptance condition leaves the state unchanged, issues no completion call
\* and sends exactly one corrective message.
C1_AsStated ==
  [][ /\ IsPick(ev') /\ ~Accepted(Before, after_colon(ev'.data))
           => RejectedStep
      /\ ev'.kind = "text" /\ Before.step = "waiting_idea_selection"
           /\ ~Accepted(Before, ev'.data)
           => RejectedStep ]_vars

\* C1 (amended): the same for a callback pick:<x> in any step and for text
\* NOT flagged as a command typed while step is waiting_idea_selection; text
\* flagged as a command is dropped without any message.
C1_RejectedSelection ==
  [][ /\ IsPick(ev') /\ ~Accepted(Before, after_colon(ev'.data))
           => RejectedStep
      /\ IsFreeText(ev') /\ Before.step = "waiting_idea_selection"
           /\ ~Accepted(Before, ev'.data)
           => RejectedStep ]_vars

\* pick:<MaxIdeas + 1> was rejected with MaxIdeas ideas on offer.
C1_Witness ==
  /\ IsPick(ev)
  /\ ev.data = PickPrefix \o Str(MaxIdeas + 1)
  /\ Cur(ev.user).step = "waiting_idea_selection"
  /\ Len(Cur(ev.user).ideas) = MaxIdeas
  /\ out = <<Msg("no_such_idea")>>
  /\ calls = <<>>

\* The selection event of the step: a callback, or typed digits.
IsSelection(e) ==
  IsPick(e) \/ (IsFreeText(e) /\ isdigit(strip(e.data)))
SelectionArg(e) == IF IsPick(e) THEN after_colon(e.data) ELSE e.data

\* C2: a selection n, 1 <= n <= len(ideas), handled in waiting_idea_selection
\* records selected_index = n - 1 and step generating_post in the step that
\* issues the post call, and the post prompt is built from ideas[n - 1] and
\* the stored niche, goal and content_format.
C2_ValidSelection ==
  [][ IsSelection(ev') /\ Accepted(Before, SelectionArg(ev'))
        => LET n == int_value(SelectionArg(ev'))
           IN /\ After = [Before EXCEPT !.selected_index = Some(n - 1),
                                        !.step = "generating_post"]
              /\ calls' = <<Call("POST_SYSTEM_PROMPT",
                                 <<Before.niche, Before.goal,
                                   Before.content_format,
                                   Some(Before.ideas[n].title),
                                   Some(Before.ideas[n].description)>>, 8)>>
              /\ inflight'[<<"pick", ev'.user, TRUE>>]
                   = inflight[<<"pick", ev'.user, TRUE>>] + 1 ]_vars

\* The second of two distinct ideas was selected.
C2_Witness ==
  /\ IsPick(ev)
  /\ ev.data = PickPrefix \o Str(2)
  /\ Cur(ev.user).step = "generating_post"
  /\ Cur(ev.user).selected_index = Some(1)
  /\ Len(Cur(ev.user).ideas) = 2
  /\ Cur(ev.user).ideas[1] # Cur(ev.user).ideas[2]
  /\ Len(calls) = 1
  /\ calls[1].user_prompt[4] = Some(Cur(ev.user).ideas[2].title)

\* C3: after /start or action:new, handled in any step, the stored state of
\* the user is a fresh one: waiting_niche, no parameters, no ideas, no
\* selected_index.
C3_Reset ==
  [][ ev'.kind \in {"start", "new"}
        => /\ After.step = "waiting_niche"
           /\ After.niche = None
           /\ After.goal = None
           /\ After.content_format = None
           /\ After.ideas = <<>>
           /\ After.selected_index = None
           /\ storage'[ev'.user] # None ]_vars

\* A reset was handled while a handler that had collected all parameters
\* was still waiting for the completion service.
C3_Witness ==
  /\ ev.kind = "new"
  /\ Cur(ev.user) = UserState
  /\ inflight[<<"pick", ev.user, FALSE>>] > 0


\* C4 (as stated): from a fresh state three free-text inputs t1, t2, t3 move
\* step waiting_niche -> waiting_goal -> waiting_format -> ready_to_generate,
\* one step per input, storing niche = t1, goal = t2, content_format = t3
\* exactly as supplied; each input writes only its own field and step.
C4_AsStated ==
  [][ IsFreeText(ev')
        => /\ Before.step = "waiting_niche"
                => After = [Before EXCEPT !.niche = Some(ev'.data),
                                          !.step = "waiting_goal"]
           /\ Before.step = "waiting_goal"
                => After = [Before EXCEPT !.goal = Some(ev'.data),
                                          !.step = "waiting_format"]
           /\ Before.step = "waiting_format"
                => After = [Before EXCEPT !.content_format = Some(ev'.data),
                                          !.step = "ready_to_generate"] ]_vars

\* The input with the whitespace at its ends removed.
Trimmed(t) ==
  LET first == CHOOSE i \in 1..(Len(t) + 1) :
                 /\ \A j \in 1..(i - 1) : t[j] = " "
                 /\ i <= Len(t) => t[i] # " "
      last == CHOOSE i \in 0..Len(t) :
                /\ \A j \in (i + 1)..Len(t) : t[j] = " "
                /\ i >= 1 => t[i] # " "
  IN IF first > last THEN <<>> ELSE SubSeq(t, first, last)

\* C4 (amended): the same walk, one step per input, where each input is
\* stored with the whitespace at its ends removed (niche = trim(t1), goal =
\* trim(t2), content_format = trim(t3)); each input writes only its own field
\* and step.  A state in one of the three collecting steps holds exactly the
\* parameters of the earlier steps and nothing else.
C4_Collecting ==
  /\ [][ IsFreeText(ev')
           => /\ Before.step = "waiting_niche"
                   => After = [Before EXCEPT !.niche = Some(Trimmed(ev'.data)),
                                             !.step = "waiting_goal"]
              /\ Before.step = "waiting_goal"
                   => After = [Before EXCEPT !.goal = Some(Trimmed(ev'.data)),
                                             !.step = "waiting_format"]
              /\ Before.step = "waiting_format"
                   => After = [Before EXCEPT
                                 !.content_format = Some(Trimmed(ev'.data)),
                                 !.step = "ready_to_generate"] ]_vars
  /\ [](\A u \in Users :
          LET state == Cur(u)
          IN /\ state.step = "waiting_niche" => state = UserState
             /\ state.step = "waiting_goal"
                  => /\ state.niche # None
                     /\ state = [UserState EXCEPT !.niche = state.niche,
                                                  !.step = "waiting_goal"]
             /\ state.step = "waiting_format"
                  => /\ state.niche # None /\ state.goal # None
                     /\ state = [UserState EXCEPT !.niche = state.niche,
                                                  !.goal = state.goal,
                                                  !.step = "waiting_format"]
             /\ state.step = "ready_to_generate"
                  => /\ state.niche # None /\ state.goal # None
                     /\ state.content_format # None
                     /\ state.ideas = <<>> /\ state.selected_index = None)

\* The third input was stored: three different inputs ended in their own
\* fields, trimmed.
C4_Witness ==
  /\ IsFreeText(ev)
  /\ ev.data = Str(MaxIdeas)
  /\ Cur(ev.user) = [UserState EXCEPT !.niche = Some(<<"a">>),
                                      !.goal = Some(<<>>),
                                      !.content_format = Some(Str(MaxIdeas)),
                                      !.step = "ready_to_generate"]
  /\ out # <<>> /\ out[1].text = "parameters"


\* A parameter is set and not the empty text.
NonEmpty(opt) == Len(opt) = 1 /\ Len(opt[1]) > 0
AllSet(state) ==
  NonEmpty(state.niche) /\ NonEmpty(state.goal)
    /\ NonEmpty(state.content_format)
RestartTexts == {"parameters_missing", "ideas_failed", "post_failed"}

\* C5: action:generate calls the completion service only when niche, goal
\* and content_format are all non-empty, with the idea prompt of the three;
\* otherwise it issues no call, leaves the state unchanged and tells the user
\* to restart.  When the call and the parse succeed, the handler stores the
\* parsed ideas and step waiting_idea_selection in the state it looked up.
C5_Generate ==
  [][ /\ ev'.kind = "generate" /\ AllSet(Before)
           => calls' = <<Call("IDEA_SYSTEM_PROMPT",
                              <<Before.niche, Before.goal,
                                Before.content_format>>, 9)>>
      /\ ev'.kind = "generate" /\ ~AllSet(Before)
           => /\ calls' = <<>>
              /\ inflight' = inflight
              /\ After = Before
              /\ Len(out') = 1 /\ out'[1].text = "parameters_missing"
      /\ ev'.kind = "generate_return" /\ ev'.status = "none" /\ ev'.current
           => /\ ev'.ideas # <<>>
              /\ After = [Before EXCEPT !.ideas = ev'.ideas,
                                        !.step = "waiting_idea_selection"] ]_vars

\* action:generate was refused in ready_to_generate because a parameter is
\* the empty text.
C5_Witness ==
  /\ ev.kind = "generate"
  /\ Cur(ev.user).step = "ready_to_generate"
  /\ Cur(ev.user).niche # None
  /\ Cur(ev.user).goal = Some(<<>>)
  /\ out = <<Msg("parameters_missing")>>
  /\ calls = <<>>

\* C6: when the idea request fails with CompletionError or ParsingError,
\* the handler has written no field of the state (neither before the call
\* nor after the failure), the user receives a restart instruction and no
\* second completion call is issued.
C6_GenerateFailure ==
  [][ /\ ev'.kind = "generate" => After = Before /\ Len(calls') <= 1
      /\ ev'.kind = "generate_return"
           /\ ev'.status \in {"GigaChatError", "IdeaParsingError"}
           => /\ storage' = storage
              /\ calls' = <<>>
              /\ InflightCount(inflight') = InflightCount(inflight) - 1
              /\ Len(out') = 1 /\ out'[1].text \in RestartTexts ]_vars

\* A response that does not parse ended the only pending request; the state
\* is still the one the request started from.
C6_Witness ==
  /\ ev.kind = "generate_return"
  /\ ev.status = "IdeaParsingError"
  /\ Cur(ev.user).step = "ready_to_generate"
  /\ AllSet(Cur(ev.user))
  /\ InflightCount(inflight) = 0
  /\ out = <<Msg("ideas_failed")>>

\* C7: when the post request succeeds, the handler sets step finished in the
\* state it looked up and the post text is delivered; when it fails with
\* CompletionError the handler writes nothing and tells the user to restart,
\* so that a failure that follows the selection leaves step generating_post
\* with selected_index and ideas as the selection left them.
C7_PostOutcome ==
  [][ /\ ev'.kind = "pick_return" /\ ev'.status = "none"
           => /\ ev'.current => After = [Before EXCEPT !.step = "finished"]
              /\ ~ev'.current => After = Before
              /\ Len(out') = 1 /\ out'[1].text = "post"
              /\ \E content \in PostContents :
                   out'[1].body = <<Some(Trimmed(content))>>
      /\ ev'.kind = "pick_return" /\ ev'.status = "GigaChatError"
           => /\ After = Before
              /\ calls' = <<>>
              /\ Len(out') = 1 /\ out'[1].text \in RestartTexts
      /\ IsSelection(ev) /\ calls # <<>> /\ ev'.user = ev.user
           /\ ev'.kind = "pick_return" /\ ev'.status = "GigaChatError"
           => /\ After.step = "generating_post"
              /\ After.selected_index # None
              /\ After.ideas # <<>> ]_vars

\* The post request failed and the state stays in generating_post.
C7_Witness ==
  /\ ev.kind = "pick_return"
  /\ ev.status = "GigaChatError"
  /\ Cur(ev.user).step = "generating_post"
  /\ Cur(ev.user).selected_index # None
  /\ InflightCount(inflight) = 0
  /\ out = <<Msg("post_failed")>>


\* Events are handled one at a time: no handler is waiting on the completion
\* service, or only the handler of the event of the last step is.
OneAtATime ==
  \/ InflightCount(inflight) = 0
  \/ InflightCount(inflight) = 1 /\ calls # <<>>

\* C8 (as stated), for events handled one at a time: once step is finished,
\* only a reset (/start, action:new) changes the step; text, /help,
\* action:about, action:generate and pick:<n> leave it finished.
C8_FinishedUntilReset ==
  [][ \A u \in Users :
        OneAtATime /\ StateIn(storage, u).step = "finished"
          /\ ~(ev'.kind \in {"start", "new"} /\ ev'.user = u)
          => StateIn(storage', u).step = "finished" ]_vars

\* C9: ideas is non-empty only in the steps waiting_idea_selection,
\* generating_post and finished.
C9_IdeasOnlyAfterGeneration ==
  \A u \in Users :
    Cur(u).ideas # <<>>
      => Cur(u).step \in {"waiting_idea_selection", "generating_post",
                          "finished"}

\* Ideas are held in the last step of the flow.
C9_Witness ==
  \E u \in Users :
    /\ Len(Cur(u).ideas) = MaxIdeas
    /\ Cur(u).step = "finished"
    /\ Cur(u).selected_index # None

\* selected_index is unset or a valid index into ideas.
IndexValid(state) ==
  state.selected_index # None
    => /\ 0 <= state.selected_index[1]
       /\ state.selected_index[1] < Len(state.ideas)

\* C10 (as stated), for events handled one at a time: a selected_index that
\* is set is a valid index into ideas and stays one, because the ideas of a
\* state are not replaced once generated -- no step makes a valid
\* selected_index invalid.
C10_SelectedIndexValid ==
  [][ \A u \in Users :
        OneAtATime /\ IndexValid(StateIn(storage, u))
          => IndexValid(StateIn(storage', u)) ]_vars

\* ------------------------------------------------------------------ C11
\* A credential is cached, and more than the margin of 30 seconds is left
\* until its expiry.
Cached == access_token # None /\ token_expires_at # None
MoreThanMarginLeft ==
  LET e == token_expires_at[1]
  IN now.s + 30 < e.s \/ (now.s + 30 = e.s /\ now.ms < e.ms)

\* C11: a call sends a token request, before its completion request, exactly
\* when no credential is cached or the time is at or past expires_at - 30 s;
\* a token request is sent at no other point of a call; a call that found
\* more than 30 seconds left sends no token request and its completion
\* request carries the cached token.
C11_Reuse ==
  [][ /\ cev'.kind = "call"
           => /\ cev'.acquired <=> (~Cached \/ ~MoreThanMarginLeft)
              /\ thread'[cev'.thread].at
                   = IF cev'.acquired THEN "token_wait" ELSE "ready"
      /\ \A t \in Threads :
           thread'[t].at = "token_wait" /\ thread[t].at # "token_wait"
             => cev'.kind = "call" /\ cev'.thread = t
      /\ cev'.kind = "send"
           => /\ cev'.bearer = access_token
              /\ cev'.acquired
                   => thread[cev'.thread].at = "ready"
                        /\ token_expires_at # None
              /\ ~cev'.acquired
                   => thread[cev'.thread] = [at |-> "ready", held |-> None,
                                             acquired |-> FALSE] ]_all_vars

\* A call found a cached credential with exactly 30 seconds left and sent a
\* token request.
C11_Witness ==
  /\ cev.kind = "call"
  /\ cev.acquired
  /\ Cached
  /\ whole
  /\ token_expires_at[1] = Instant(now.s + 30, now.ms)

\* ------------------------------------------------------------------ C12
\* The expiry computation was applied to a token response read at time T.
ExpiryApplied == arg # None /\ arg.fn = "expiry" /\ res # None
IsNumber(field) == field # None /\ field[1].type = "number"
\* A string field that the code's parser accepts.
Parses(field) ==
  field # None /\ field[1].type = "string" /\ field[1].parsed # None
\* A numeric expires_at v in seconds: v, or v / 1000 when v > 10^11.
InSeconds(v) ==
  IF v.hi > 100000 \/ (v.hi = 100000 /\ v.lo > 0)
  THEN [s |-> v.hi * 1000 + v.lo \div 1000, ms |-> v.lo % 1000]
  ELSE [s |-> v.hi * 1000000 + v.lo, ms |-> 0]
\* T + k seconds.
Later(T, k) == [s |-> T.s + k.s + (T.ms + k.ms) \div 1000,
                ms |-> (T.ms + k.ms) % 1000]
\* The lifetime expires_in tells: k, or 55 minutes when it does not parse.
LifetimeOf(field) ==
  IF IsNumber(field) THEN [s |-> field[1].hi * 1000000 + field[1].lo, ms |-> 0]
  ELSE IF Parses(field) THEN field[1].parsed[1]
  ELSE [s |-> 3300, ms |-> 0]
\* The cases in which no expires_at is usable.
FromLifetime ==
  ExpiryApplied /\ ~IsNumber(arg.expires_at) /\ ~Parses(arg.expires_at)
    => res[1] = Later(arg.clock, LifetimeOf(arg.expires_in))

\* C12 (as stated): a numeric expires_at v is an absolute epoch instant, v
\* seconds, or v / 1000 seconds when v > 10^11; without a usable expires_at,
\* expires_in = k gives T + k seconds, and T + 3300 seconds when no field is
\* present or parseable.
C12_AsStated ==
  /\ ExpiryApplied /\ IsNumber(arg.expires_at)
       => res[1] = InSeconds(arg.expires_at[1])
  /\ FromLifetime

\* C12 (amended): a numeric expires_at v, scaled to seconds (v, or v / 1000
\* when v > 10^11), is an absolute epoch instant only when it is above 10^9
\* and is otherwise a lifetime counted from T; a string expires_at that
\* parses as an ISO date is that instant; in every other case expires_in = k
\* gives T + k seconds, and T + 3300 seconds when it is absent or does not
\* parse.  1_700_000_000 and 1_700_000_000_000 give the same instant.
C12_Expiry ==
  /\ ExpiryApplied /\ IsNumber(arg.expires_at)
       => LET v == InSeconds(arg.expires_at[1])
          IN IF v.s > 1000000000 \/ (v.s = 1000000000 /\ v.ms > 0)
             THEN res[1] = v
             ELSE res[1] = Later(arg.clock, v)
  /\ ExpiryApplied /\ Parses(arg.expires_at)
       => res[1] = arg.expires_at[1].parsed[1]
  /\ FromLifetime
  /\ ExpiryApplied
       /\ arg.expires_at \in {Some(Number(1700, 0)), Some(Number(1700000, 0))}
       => res[1] = [s |-> 1700000000, ms |-> 0]

\* A numeric expires_at of 120 was taken as a lifetime of 120 seconds.
C12_Witness ==
  /\ ExpiryApplied
  /\ arg.expires_at = Some(Number(0, 120))
  /\ res[1] = [s |-> arg.clock.s + 120, ms |-> arg.clock.ms]

\* ------------------------------------------------------------------ C13
\* The last step ended a call without a text: _refresh_token or
\* generate_completion raised.
CallFailed == cev.kind \in {"token", "return"} /\ cev.result \notin {"none", "ok"}
\* The failure modes the claim lists: a token response with a status other
\* than 200 or without a token, a timeout of either request, a completion
\* response with a status other than 200 or without the content field.
ListedFailure ==
  \/ cev.kind = "token" /\ cev.response \in {"http_error", "ok", "timeout"}
  \/ cev.kind = "return"
       /\ cev.response \in {"http_error", "no_content", "timeout"}

\* C13 (as stated): a call that does not return text fails with
\* GigaChatError and with no other kind of error, in each listed failure
\* mode.
C13_CompletionErrorOnly ==
  CallFailed /\ ListedFailure => cev.result = "GigaChatError"

\* ------------------------------------------------------------------ C14
\* C14 (as stated): when the remote call of an action:generate or of a valid
\* selection fails in any way, the handler ends by sending the user one
\* message that tells them to restart, and an event issues at most one
\* generate_completion call (no retry).
C14_FailureSurfaced ==
  [][ /\ ev'.kind \in {"generate_return", "pick_return"}
           /\ ev'.status # "none"
           => /\ Len(out') = 1 /\ out'[1].text \in RestartTexts
              /\ calls' = <<>>
      /\ Len(calls') <= 1 ]_vars

\* ------------------------------------------------------------------ C15
\* parse_ideas was applied to a raw text.
ParseApplied == arg # None /\ arg.fn = "parse_ideas" /\ res # None
\* The text, or its bracketed part, is JSON.
Decodes == decode(arg.raw).type # "invalid"
\* An object whose title and description are both present and non-empty.
IsIdeaObject(item) ==
  /\ item.type = "object"
  /\ item.title # None /\ item.title[1] # <<>>
  /\ item.description # None /\ item.description[1] # <<>>
\* An array of at least one element, every element such an object.
IsIdeaArray(value) ==
  /\ value.type = "array"
  /\ Len(value.items) >= 1
  /\ \A i \in 1..Len(value.items) : IsIdeaObject(value.items[i])

\* C15: for every decoded JSON value, parse succeeds exactly when the value
\* is an array with at least one element and every element is an object
\* whose title and description are both non-empty; on success it returns one
\* Idea per element, in the same order, with trimmed title and description;
\* in every other case it fails with ParsingError.
C15_Parse ==
  ParseApplied /\ Decodes
    => LET value == decode(arg.raw)
           result == res[1]
       IN /\ result.ok <=> IsIdeaArray(value)
          /\ result.ok
               => /\ Len(result.ideas) = Len(value.items)
                  /\ \A i \in 1..Len(value.items) :
                       result.ideas[i]
                         = [title |-> Trimmed(value.items[i].title[1]),
                            description |->
                              Trimmed(value.items[i].description[1])]
                  /\ result.error = "none"
          /\ ~result.ok
               => result.ideas = <<>>
                    /\ result.error \in {"not_array", "bad_item", "no_ideas"}

\* Two ideas were returned in the order of the array, the first one trimmed.
C15_Witness ==
  /\ ParseApplied
  /\ arg.raw = <<"[", "B", ",", "A", "]">>
  /\ res[1].ok
  /\ res[1].ideas = <<[title |-> <<"B">>, description |-> <<"y">>],
                      [title |-> <<"A">>, description |-> <<"x">>]>>

\* ------------------------------------------------------------------ C16
\* The text holds a "[" that a "]" follows.
HasBracketPair(s) ==
  \E i, j \in 1..Len(s) : i < j /\ s[i] = "[" /\ s[j] = "]"
\* The text from the first "[" through the last "]".
Bracketed(s) ==
  LET first == CHOOSE i \in 1..Len(s) :
                 s[i] = "[" /\ \A k \in 1..(i - 1) : s[k] # "["
      last == CHOOSE j \in 1..Len(s) :
                s[j] = "]" /\ \A k \in (j + 1)..Len(s) : s[k] # "]"
  IN SubSeq(s, first, last)
NotJson == [ok |-> FALSE, ideas |-> <<>>, error |-> "not_json"]

\* C16: text that is valid JSON as a whole is parsed as it is and never
\* scanned for brackets; for text that is not, parse gives exactly the result
\* of parsing the part from the first "[" through the last "]", and fails
\* with ParsingError when there is no "[" followed by a "]" or when that part
\* is not valid JSON.  An idea array wrapped in prose is recovered.
C16_Bracketed ==
  ParseApplied
    => /\ json_loads(arg.raw).ok
            => res[1] = parse_ideas(json_loads(arg.raw).value)
       /\ ~json_loads(arg.raw).ok /\ ~HasBracketPair(arg.raw)
            => res[1] = NotJson
       /\ ~json_loads(arg.raw).ok /\ HasBracketPair(arg.raw)
            => IF json_loads(Bracketed(arg.raw)).ok
               THEN res[1]
                      = parse_ideas(json_loads(Bracketed(arg.raw)).value)
               ELSE res[1] = NotJson
       /\ arg.raw = <<"x", "[", "A", "]", "x">>
            => res[1].ideas = <<[title |-> <<"A">>, description |-> <<"x">>]>>

\* An array of two ideas was recovered from the prose around it.
C16_Witness ==
  /\ ParseApplied
  /\ arg.raw = <<"x", "[", "A", ",", "B", "]", "x">>
  /\ ~json_loads(arg.raw).ok
  /\ res[1].ok
  /\ Len(res[1].ideas) = 2

\* ------------------------------------------------------------------ C17
\* C17: a text flagged as a command is never consumed as free text: in every
\* step it leaves the six fields of the state unchanged, triggers no
\* selection and no completion call and gets no reply; the help command and
\* action:about leave the state unchanged and issue no call.
C17_CommandsNotText ==
  [][ /\ ev'.kind = "text" /\ ev'.is_command
           => /\ After = Before
              /\ inflight' = inflight
              /\ calls' = <<>>
              /\ out' = <<>>
      /\ ev'.kind \in {"help", "about"}
           => /\ After = Before
              /\ inflight' = inflight
              /\ calls' = <<>> ]_vars

\* A text flagged as a command arrived while the ideas were offered, and
\* nothing was selected or said.
C17_Witness ==
  /\ ev.kind = "text" /\ ev.is_command
  /\ Cur(ev.user).step = "waiting_idea_selection"
  /\ Cur(ev.user).ideas # <<>>
  /\ Cur(ev.user).selected_index = None
  /\ out = <<>>

\* ------------------------------------------------------------------ C18
\* No other thread is inside generate_completion.
OnlyCall(t) == \A u \in Threads \ {t} : thread[u] = Idle

\* C18 (as stated, for a failed attempt made while no other call runs):
\* after an acquisition attempt that failed, the stored (token, expires_at)
\* pair is the complete pair from before the attempt -- the token is not
\* cleared while its expiry is retained.
C18_ReplacedAsAWhole ==
  [][ cev'.kind = "token" /\ cev'.result # "none" /\ OnlyCall(cev'.thread)
        => /\ access_token' = access_token
           /\ token_expires_at' = token_expires_at ]_all_vars

\* ------------------------------------------------------------------ C19
\* The number n of the selection event of the step: that of the callback
\* pick:n, or that of a text made of the decimal digits of n.
IsNumberCallback(e) == IsPick(e) /\ isdigit(after_colon(e.data))
IsTypedNumber(e) == IsFreeText(e) /\ isdigit(e.data)
\* What handling the selection n in a state results in: the state, the
\* completion calls and the message, by the one validation of n.
SelectionOutcome(state, n) ==
  IF 1 <= n /\ n <= Len(state.ideas)
  THEN [state |-> [state EXCEPT !.selected_index = Some(n - 1),
                                !.step = "generating_post"],
        calls |-> <<Call("POST_SYSTEM_PROMPT",
                         <<state.niche, state.goal, state.content_format,
                           Some(state.ideas[n].title),
                           Some(state.ideas[n].description)>>, 8)>>,
        out |-> <<Msg("good_choice")>>]
  ELSE [state |-> state, calls |-> <<>>, out |-> <<Msg("no_such_idea")>>]

\* C19: in waiting_idea_selection, the text made of the decimal digits of n
\* and the callback pick:n result in the same state, the same completion
\* call and the same accept or reject decision, for every n >= 0.
C19_TypedAsButton ==
  [][ (IsNumberCallback(ev') \/ IsTypedNumber(ev'))
        /\ Before.step = "waiting_idea_selection"
        => [state |-> After, calls |-> calls', out |-> out']
             = SelectionOutcome(Before,
                                int_value(SelectionArg(ev'))) ]_vars

\* A typed number was accepted as the button of that number is.
C19_Witness ==
  /\ IsTypedNumber(ev)
  /\ ev.data = Str(MaxIdeas)
  /\ Cur(ev.user).step = "generating_post"
  /\ Cur(ev.user).selected_index = Some(MaxIdeas - 1)
  /\ Len(calls) = 1
  /\ out = <<Msg("good_choice")>>

\* ------------------------------------------------------------------ C20
\* The handlers of action:generate of the user of the step that wait on the
\* completion service and hold the stored state.
Generating(inf) == inf[<<"generate", ev'.user, TRUE>>]

\* C20: nothing serializes the events of a user: an action:generate handled
\* while another one of the user waits on the completion service passes the
\* check of the three parameters and issues its own call; each response that
\* parses is written when it arrives, so that the stored ideas are those of
\* the response written last, with step waiting_idea_selection; a response
\* that fails writes nothing.
C20_LastResponseWins ==
  [][ /\ ev'.kind = "generate" /\ Generating(inflight) >= 1
           => /\ AllSet(Before)
              /\ Len(calls') = 1
              /\ Generating(inflight') = Generating(inflight) + 1
              /\ After = Before
      /\ ev'.kind = "generate_return" /\ ev'.current
           /\ (Generating(inflight) >= 2 \/ Before.ideas # <<>>)
           => /\ Generating(inflight') = Generating(inflight) - 1
              /\ IF ev'.status = "none"
                 THEN /\ After.ideas = ev'.ideas
                      /\ After.step = "waiting_idea_selection"
                      /\ ev'.ideas # <<>>
                 ELSE After = Before ]_vars

\* Of two calls in flight for one user the first has returned and its ideas
\* are stored, while the second is still awaited.
C20_Witness ==
  /\ ev.kind = "generate_return" /\ ev.status = "none" /\ ev.current
  /\ inflight[<<"generate", ev.user, TRUE>>] = 1
  /\ inflight[<<"pick", ev.user, TRUE>>] = 0
  /\ Cur(ev.user).step = "waiting_idea_selection"
  /\ Cur(ev.user).ideas = ev.ideas

\* ------------------------------------------------------------------ C21
\* The step is the return of a handler whose user was reset while it waited
\* on the completion service.
LateReturn ==
  /\ ev'.kind \in {"generate_return", "pick_return"}
  /\ ~ev'.current

\* The handlers of the user of the step that wait on the completion service
\* and hold the object the store maps the user to.
HoldingCurrent(inf) ==
  inf[<<"generate", ev'.user, TRUE>>] + inf[<<"pick", ev'.user, TRUE>>]

\* C21: a reset installs a fresh UserState (step waiting_niche, no
\* parameters, no ideas, no selected_index) and leaves every handler of the
\* user that waits on the completion service with the object it read at its
\* start; when such a handler returns, whatever the response, the store is
\* left as it is, so the state of the user stays the one the reset or the
\* input after it produced.
C21_LateWritesLost ==
  [][ /\ ev'.kind \in {"start", "new"}
           => /\ After = UserState
              /\ HoldingCurrent(inflight') = 0
      /\ LateReturn => storage' = storage ]_vars

\* After a reset a late action:generate handler received ideas that parse,
\* and the state of the user is still the fresh one.
C21_Witness ==
  /\ ev.kind = "generate_return" /\ ~ev.current
  /\ ev.status = "none" /\ ev.ideas # <<>>
  /\ storage[ev.user] = Some(UserState)

====
